---- MODULE Spec2Model ----
(***************************************************************************)
(* Model of scrapper/main.py: the recursive fetch of a remote repository   *)
(* listing through an asyncio.Semaphore, the streaming download of files, *)
(* and the SHA-256 manifest written afterwards.                           *)
(*                                                                         *)
(* Strings (URLs, local paths) are sequences of one-character strings so   *)
(* that split('/'), re.sub and os.path.join are computed, not assumed.     *)
(* Every coroutine call is identified by the remote node it was called     *)
(* for; pc[n] is the position of that call in its function body.           *)
(*                                                                         *)
(* Operators that scan a string or the filesystem bind their argument as   *)
(* v \in {e}, so that it is evaluated once wherever the operator is used,  *)
(* also inside ENABLED (the fairness condition of FairSpec).               *)
(***************************************************************************)
EXTENDS Integers, Sequences, FiniteSets, TLC

\* ---------------------------------------------------------------- bounds
MaxNodes == 4    \* number of entries of the remote tree, root included
MaxChunks == 1   \* number of non-empty 1024-byte reads of one response body

\* ------------------------------------------------------ program constants
SEMAPHORE_LIMIT == 3
PATTERN_TO_FIND == <<"/", "s", "r", "c", "/", "b", "r", "a", "n", "c", "h">>
PATTERN_TO_SUB == <<"/", "r", "a", "w", "/", "b", "r", "a", "n", "c", "h">>
PATH_TO_RESULT ==
    <<"r", "e", "p", "o", "s", "i", "t", "o", "r", "y", "_", "s", "h", "a", "2", "5", "6">>
FIELDNAMES ==
    <<<<"f", "i", "l", "e", "_", "p", "a", "t", "h">>,
      <<"s", "h", "a", "2", "5", "6", "_", "h", "a", "s", "h">>>>

\* arguments of main(base_url, project_url, path_prefix='')
BASE_URL == <<"h", ":">>
PROJECT_URL == <<"/", "r", "/", "p">>
PATH_PREFIX == <<>>

VARIABLES
    parent,    \* remote tree: parent[n] is the directory listing n appears in
    kind,      \* remote tree: kind[n] is "dir" or "file" (the entry's marker)
    pc,        \* pc[n]: position of the fetch_data / save_file call made for n
    idx,       \* idx[n]: position of fetch_data's for-loop over objects_in_repo
    lpath,     \* lpath[n]: the local_path / path argument of the call made for n
    url,       \* url[n]: the url argument of the call made for n
    failed,    \* nodes whose session.get raised ClientConnectorError
    sem,       \* asyncio.Semaphore._value
    dirs,      \* local filesystem: the directories
    files,     \* local filesystem: regular file path -> chunks written
    unreadable,\* local files that open(file_path, 'rb') fails on during the build
    mainpc,    \* position of main()
    manifest   \* rows of the CSV file at path_to_result (<<>>: not created)

vars ==
    <<parent, kind, pc, idx, lpath, url, failed, sem, dirs, files, unreadable, mainpc, manifest>>

\* ------------------------------------------------------- string helpers
StartsWith(s, p) == Len(s) >= Len(p) /\ SubSeq(s, 1, Len(p)) = p

\* re.sub for a literal pattern, scanning s from position i: every
\* leftmost non-overlapping occurrence is replaced
RECURSIVE ReSubScan(_, _, _, _)
ReSubScan(find, sub, s, i) ==
    IF i > Len(s) THEN <<>>
    ELSE IF StartsWith(SubSeq(s, i, Len(s)), find)
         THEN sub \o ReSubScan(find, sub, s, i + Len(find))
         ELSE <<s[i]>> \o ReSubScan(find, sub, s, i + 1)

\* re.sub(find, sub, s); the subject string is evaluated once
ReSub(find, sub, s) == CHOOSE r \in {ReSubScan(find, sub, v, 1) : v \in {s}} : TRUE

\* s.split('/'): the scan at position i of s, the current segment
\* starting at position from
RECURSIVE SplitScan(_, _, _)
SplitScan(s, i, from) ==
    IF i > Len(s) THEN <<SubSeq(s, from, Len(s))>>
    ELSE IF s[i] = "/" THEN <<SubSeq(s, from, i - 1)>> \o SplitScan(s, i + 1, i + 1)
    ELSE SplitScan(s, i + 1, from)

\* s.split('/'); the string is evaluated once
Split(s) == CHOOSE r \in {SplitScan(v, 1, 1) : v \in {s}} : TRUE

\* s.split('/')[-1]
LastSegment(s) == CHOOSE r \in {segments[Len(segments)] : segments \in {Split(s)}} : TRUE

\* os.path.join(a, b)
PathJoin(a, b) ==
    IF StartsWith(b, <<"/">>) THEN b
    ELSE IF a = <<>> \/ a[Len(a)] = "/" THEN a \o b
    ELSE a \o <<"/">> \o b

\* f'{path}/{filename}'
FString(path, filename) == path \o <<"/">> \o filename

\* os.makedirs(p, exist_ok=True): p and every missing ancestor of p
MakeDirs(ds, p) ==
    ds \cup {SubSeq(p, 1, i) : i \in {k \in 1..Len(p) :
                                   k = Len(p) \/ p[k + 1] = "/"}}

\* ---------------------------------------------------------- remote tree
Nodes == DOMAIN kind
Root == 1
\* the last segment of the reference of each entry; an entry named
\* "branch" may be listed in a directory named "src"
NAMES ==
    <<<<"p">>, <<"s", "r", "c">>, <<"b", "r", "a", "n", "c", "h">>, <<"c">>,
      <<"d">>, <<"e">>, <<"f">>, <<"g">>>>
Name(n) == NAMES[n]

\* the listing of directory d, in listing order
RECURSIVE SeqOf(_, _)
SeqOf(S, from) ==
    IF S = {} THEN <<>>
    ELSE IF from \in S THEN <<from>> \o SeqOf(S \ {from}, from + 1)
    ELSE SeqOf(S, from + 1)
ObjectsInRepo(d) == SeqOf({n \in Nodes : n # Root /\ parent[n] = d}, 1)

\* path of n below the repository root
RECURSIVE RelPath(_)
RelPath(n) == IF n = Root THEN <<>> ELSE RelPath(parent[n]) \o <<"/">> \o Name(n)

\* element.find_next_sibling().get('href')
Href(n) ==
    IF n = Root THEN PROJECT_URL
    ELSE PROJECT_URL \o PATTERN_TO_FIND \o <<"/", "m">> \o RelPath(n)

IsTree(par, kd) ==
    /\ kd[1] = "dir"
    /\ par[1] = 1
    /\ \A n \in DOMAIN kd : n > 1 => par[n] < n /\ kd[par[n]] = "dir"

Trees ==
    UNION {{t \in [parent : [1..k -> 1..k], kind : [1..k -> {"dir", "file"}]] :
               IsTree(t.parent, t.kind)} : k \in 1..MaxNodes}

\* ------------------------------------------------------------ semaphore
\* asyncio.Semaphore: acquire() returns only while the value is positive
\* a gate that admits every caller
CanAcquireUnbounded == sem > 0 - MaxNodes

CanAcquire == sem > 0

\* the calls that are inside their "async with semaphore" block
InGate(n) == pc[n] \in {"get", "text", "loop", "await", "read"}
Holders == {n \in Nodes : InGate(n)}

\* ------------------------------------------------------------ save_file
\* a reference passed to save_file as it was listed
UrlAsListed(c) == Href(c)

\* url_to_download, as fetch_data passes it to save_file
UrlToDownload(c) == ReSub(PATTERN_TO_FIND, PATTERN_TO_SUB, Href(c))

\* a save_file that ignores its path argument
TargetInRoot(c) ==
    FString(PathJoin(PATH_PREFIX, LastSegment(PROJECT_URL)), LastSegment(UrlToDownload(c)))

\* session.get(base_url + url): the address requested by the call for n
Request(n) == BASE_URL \o url[n]

\* the file that save_file opens for the entry c
Target(c) == FString(lpath[c], LastSegment(UrlToDownload(c)))

SaveFileAcquire(c) ==
    /\ kind[c] = "file" /\ pc[c] = "acquire"
    /\ CanAcquire
    /\ sem' = sem - 1
    /\ pc' = [pc EXCEPT ![c] = "get"]
    /\ UNCHANGED <<parent, kind, idx, lpath, url, failed, dirs, files, mainpc, manifest, unreadable>>

\* a save_file that opens the destination before the request
SaveFileGetErrorOpened(c) ==
    /\ kind[c] = "file" /\ pc[c] = "get"
    /\ failed' = failed \cup {c}
    /\ sem' = sem + 1
    /\ pc' = [pc EXCEPT ![c] = "done"]
    /\ files' = [p \in DOMAIN files \cup {Target(c)} |->
                    IF p = Target(c) THEN <<>> ELSE files[p]]
    /\ UNCHANGED <<parent, kind, idx, lpath, url, dirs, mainpc, manifest, unreadable>>

\* session.get raises ClientConnectorError: log, return None
SaveFileGetError(c) ==
    /\ kind[c] = "file" /\ pc[c] = "get"
    /\ failed' = failed \cup {c}
    /\ sem' = sem + 1
    /\ pc' = [pc EXCEPT ![c] = "done"]
    /\ UNCHANGED <<parent, kind, idx, lpath, url, dirs, files, mainpc, manifest, unreadable>>

\* session.get returns a response; open(f'{path}/{filename}', 'wb')
SaveFileOpen(c) ==
    /\ kind[c] = "file" /\ pc[c] = "get"
    /\ IF lpath[c] \in dirs
       THEN /\ files' = [p \in DOMAIN files \cup {Target(c)} |->
                            IF p = Target(c) THEN <<>> ELSE files[p]]
            /\ pc' = [pc EXCEPT ![c] = "read"]
            /\ sem' = sem
       ELSE \* FileNotFoundError leaves the async with block
            /\ files' = files
            /\ pc' = [pc EXCEPT ![c] = "raised"]
            /\ sem' = sem + 1
    /\ UNCHANGED <<parent, kind, idx, lpath, url, failed, dirs, mainpc, manifest, unreadable>>

\* response.content.read(1024) returns data: document.write(data_part)
SaveFileWrite(c) ==
    /\ kind[c] = "file" /\ pc[c] = "read"
    /\ Len(files[Target(c)]) < MaxChunks
    /\ files' = [files EXCEPT ![Target(c)] = Append(@, Len(@) + 1)]
    /\ UNCHANGED <<parent, kind, pc, idx, lpath, url, failed, sem, dirs, mainpc, manifest, unreadable>>

\* a save_file that acquires the semaphore by hand and forgets to
\* release it
SaveFileBreakNoRelease(c) ==
    /\ kind[c] = "file" /\ pc[c] = "read"
    /\ pc' = [pc EXCEPT ![c] = "done"]
    /\ UNCHANGED <<parent, kind, idx, lpath, url, failed, sem, dirs, files, mainpc, manifest, unreadable>>

\* response.content.read(1024) returns b'': break, close, leave the gate
SaveFileBreak(c) ==
    /\ kind[c] = "file" /\ pc[c] = "read"
    /\ sem' = sem + 1
    /\ pc' = [pc EXCEPT ![c] = "done"]
    /\ UNCHANGED <<parent, kind, idx, lpath, url, failed, dirs, files, mainpc, manifest, unreadable>>

\* ----------------------------------------------------------- fetch_data
FetchDataAcquire(d) ==
    /\ kind[d] = "dir" /\ pc[d] = "acquire"
    /\ CanAcquire
    /\ sem' = sem - 1
    /\ pc' = [pc EXCEPT ![d] = "get"]
    /\ UNCHANGED <<parent, kind, idx, lpath, url, failed, dirs, files, mainpc, manifest, unreadable>>

\* a fetch_data without the except clause
FetchDataGetErrorRaised(d) ==
    /\ kind[d] = "dir" /\ pc[d] = "get"
    /\ failed' = failed \cup {d}
    /\ sem' = sem + 1
    /\ pc' = [pc EXCEPT ![d] = "raised"]
    /\ UNCHANGED <<parent, kind, idx, lpath, url, dirs, files, mainpc, manifest, unreadable>>

\* session.get raises ClientConnectorError: log, return None
FetchDataGetError(d) ==
    /\ kind[d] = "dir" /\ pc[d] = "get"
    /\ failed' = failed \cup {d}
    /\ sem' = sem + 1
    /\ pc' = [pc EXCEPT ![d] = "done"]
    /\ UNCHANGED <<parent, kind, idx, lpath, url, dirs, files, mainpc, manifest, unreadable>>

\* session.get returns a response
FetchDataGet(d) ==
    /\ kind[d] = "dir" /\ pc[d] = "get"
    /\ pc' = [pc EXCEPT ![d] = "text"]
    /\ UNCHANGED <<parent, kind, idx, lpath, url, failed, sem, dirs, files, mainpc, manifest, unreadable>>

\* await response.text(); soup.tbody.find_all(class_=CLASSES)
FetchDataText(d) ==
    /\ kind[d] = "dir" /\ pc[d] = "text"
    /\ pc' = [pc EXCEPT ![d] = "loop"]
    /\ idx' = [idx EXCEPT ![d] = 1]
    /\ UNCHANGED <<parent, kind, lpath, url, failed, sem, dirs, files, mainpc, manifest, unreadable>>

\* the element is a file: await save_file(..., url_to_download, local_path)
FetchDataSaveFile(d) ==
    /\ kind[d] = "dir" /\ pc[d] = "loop"
    /\ idx[d] <= Len(ObjectsInRepo(d))
    /\ LET c == ObjectsInRepo(d)[idx[d]]
       IN  /\ kind[c] = "file"
           /\ pc' = [pc EXCEPT ![d] = "await", ![c] = "acquire"]
           /\ lpath' = [lpath EXCEPT ![c] = lpath[d]]
           /\ url' = [url EXCEPT ![c] = UrlToDownload(c)]
    /\ UNCHANGED <<parent, kind, idx, failed, sem, dirs, files, mainpc, manifest, unreadable>>

\* the element is a directory: makedirs(new_path); await fetch_data(...)
NewPath(d, c) == PathJoin(lpath[d], LastSegment(Href(c)))

FetchDataRecurse(d) ==
    /\ kind[d] = "dir" /\ pc[d] = "loop"
    /\ idx[d] <= Len(ObjectsInRepo(d))
    /\ LET c == ObjectsInRepo(d)[idx[d]]
       IN  /\ kind[c] # "file"
           /\ dirs' = MakeDirs(dirs, NewPath(d, c))
           /\ pc' = [pc EXCEPT ![d] = "await", ![c] = "acquire"]
           /\ lpath' = [lpath EXCEPT ![c] = NewPath(d, c)]
           /\ url' = [url EXCEPT ![c] = Href(c)]
    /\ UNCHANGED <<parent, kind, idx, failed, sem, files, mainpc, manifest, unreadable>>

\* the awaited call is over
Returned(c) == pc[c] \in {"done", "raised"}

\* a loop that goes on to the next element without awaiting the call
FetchDataResumeNoWait(d) ==
    /\ kind[d] = "dir" /\ pc[d] = "await"
    /\ pc' = [pc EXCEPT ![d] = "loop"]
    /\ idx' = [idx EXCEPT ![d] = @ + 1]
    /\ UNCHANGED <<parent, kind, lpath, url, failed, sem, dirs, files, mainpc, manifest, unreadable>>

\* the awaited save_file / fetch_data returns: next element of the loop
FetchDataResume(d) ==
    /\ kind[d] = "dir" /\ pc[d] = "await"
    /\ LET c == ObjectsInRepo(d)[idx[d]]
       IN  /\ Returned(c)
           /\ IF pc[c] = "done"
              THEN /\ pc' = [pc EXCEPT ![d] = "loop"]
                   /\ idx' = [idx EXCEPT ![d] = @ + 1]
                   /\ sem' = sem
              ELSE \* the exception of the child leaves the async with block
                   /\ pc' = [pc EXCEPT ![d] = "raised"]
                   /\ idx' = idx
                   /\ sem' = sem + 1
    /\ UNCHANGED <<parent, kind, lpath, url, failed, dirs, files, mainpc, manifest, unreadable>>

\* the loop is exhausted: leave the async with block, return None
FetchDataReturn(d) ==
    /\ kind[d] = "dir" /\ pc[d] = "loop"
    /\ idx[d] > Len(ObjectsInRepo(d))
    /\ sem' = sem + 1
    /\ pc' = [pc EXCEPT ![d] = "done"]
    /\ UNCHANGED <<parent, kind, idx, lpath, url, failed, dirs, files, mainpc, manifest, unreadable>>

\* ------------------------------------------------------------- manifest
\* hashlib.sha256(data).hexdigest(): a digest identifies the data hashed
Sha256(data) == <<"sha256", data>>

\* a hash object that is never fed the data read
CalculateSha256OfNothing(file_path) == Sha256(<<>>)

\* calculate_sha256(file_path)
CalculateSha256(file_path) == Sha256(files[file_path])

\* p is an entry of the directory top
IsEntry(top, p) ==
    /\ Len(p) > Len(top) + 1
    /\ StartsWith(p, top \o <<"/">>)
    /\ \A k \in (Len(top) + 2)..Len(p) : p[k] # "/"

\* the names of the entries of top among the paths in S
EntryNames(top, S) ==
    UNION {{SubSeq(p, Len(t) + 2, Len(p)) : p \in {q \in S : IsEntry(t, q)}} : t \in {top}}

\* the order in which the filesystem returns a set of names (arbitrary,
\* fixed for a fixed set)
ListingOrder(names) ==
    CHOOSE s \in [1..Cardinality(names) -> names] : {s[k] : k \in DOMAIN s} = names

\* the names os.walk lists in top, out of the paths in S
Listing(top, S) == CHOOSE r \in {ListingOrder(names) : names \in {EntryNames(top, S)}} : TRUE

RECURSIVE Walk(_)
RECURSIVE WalkEach(_, _, _)
\* a walk that lists the top directory only
WalkEachNone(top, subdirs, i) == <<>>

\* os.walk(top), top-down: the (root, dirs, files) triples in visiting order
Walk(top) ==
    IF top \notin dirs THEN <<>>
    ELSE CHOOSE r \in {<<<<t, subdirs, Listing(t, DOMAIN files)>>>> \o WalkEach(t, subdirs, 1) :
                          t \in {top}, subdirs \in {Listing(top, dirs)}} : TRUE
\* the walks of the sub-directories of top, from the i-th on
WalkEach(top, subdirs, i) ==
    IF i > Len(subdirs) THEN <<>>
    ELSE Walk(PathJoin(top, subdirs[i])) \o WalkEach(top, subdirs, i + 1)

\* the rows written for one (root, dirs, files) triple
RowsOf(triple) ==
    [k \in 1..Len(triple[3]) |->
        CHOOSE r \in {<<file_path, CalculateSha256(file_path)>> :
                          file_path \in {PathJoin(triple[1], triple[3][k])}} : TRUE]

\* the rows written for the triples from the i-th on
RECURSIVE RowsOfAll(_, _)
RowsOfAll(triples, i) ==
    IF i > Len(triples) THEN <<>>
    ELSE RowsOf(triples[i]) \o RowsOfAll(triples, i + 1)

\* a build that skips the rows of the files it cannot read
RowsWrittenSkipping(rows) ==
    [content |-> SelectSeq(rows, LAMBDA row : row[1] \notin unreadable), raised |-> FALSE]

\* the rows written by the loop over the walk: open(file_path, 'rb')
\* raises on the first unreadable file and nothing catches it
RowsWritten(rows) ==
    LET bad == {k \in 1..Len(rows) : rows[k][1] \in unreadable}
    IN  IF bad = {} THEN [content |-> rows, raised |-> FALSE]
        ELSE [content |-> SubSeq(rows, 1, (CHOOSE k \in bad : \A j \in bad : k <= j) - 1),
              raised |-> TRUE]

\* calculate_sha256_for_directory(directory, path_to_result): the content
\* of the file opened with mode 'w' once the function is left, and
\* whether it is left by an exception
CalculateSha256ForDirectory(directory) ==
    CHOOSE r \in {[content |-> <<FIELDNAMES>> \o written.content, raised |-> written.raised] :
                      written \in {RowsWritten(rows) :
                          rows \in {RowsOfAll(triples, 1) : triples \in {Walk(directory)}}}} : TRUE

\* a manifest opened with mode 'a': the rows of an earlier build are kept
OpenAppend(content) == content

\* open(path_to_result, 'w', newline=''): the content of the file once it
\* is opened, given its content before
OpenWrite(content) == <<>>

\* ----------------------------------------------------------------- main
PathToProject == PathJoin(PATH_PREFIX, LastSegment(PROJECT_URL))
ManifestPath == PathJoin(PATH_PREFIX, PATH_TO_RESULT)

\* makedirs(path_to_project); ClientSession(); await fetch_data(...)
MainStart ==
    /\ mainpc = "start"
    /\ dirs' = MakeDirs(dirs, PathToProject)
    /\ sem' = SEMAPHORE_LIMIT
    /\ pc' = [pc EXCEPT ![Root] = "acquire"]
    /\ lpath' = [lpath EXCEPT ![Root] = PathToProject]
    /\ url' = [url EXCEPT ![Root] = PROJECT_URL]
    /\ mainpc' = "crawl"
    /\ UNCHANGED <<parent, kind, idx, failed, files, manifest, unreadable>>

\* the awaited root fetch_data returns; the session is closed
MainResume ==
    /\ mainpc = "crawl"
    /\ Returned(Root)
    /\ mainpc' = IF pc[Root] = "done" THEN "hash" ELSE "raised"
    \* the files that will have become unreadable when the build reads them
    /\ \E U \in SUBSET DOMAIN files : unreadable' = U
    /\ UNCHANGED <<parent, kind, pc, idx, lpath, url, failed, sem, dirs, files, manifest>>

\* calculate_sha256_for_directory(path_to_project, path_to_result)
MainManifest ==
    /\ mainpc = "hash"
    /\ \E build \in {CalculateSha256ForDirectory(PathToProject)} :
          /\ manifest' = OpenWrite(manifest) \o build.content
          /\ mainpc' = IF build.raised THEN "aborted" ELSE "done"
    /\ UNCHANGED <<parent, kind, pc, idx, lpath, url, failed, sem, dirs, files, unreadable>>

\* calculate_sha256_for_directory called once more with the same
\* arguments, on the directory as main left it
Rebuild ==
    /\ mainpc = "done"
    /\ \E build \in {CalculateSha256ForDirectory(PathToProject)} :
          /\ manifest' = OpenWrite(manifest) \o build.content
          /\ mainpc' = IF build.raised THEN "aborted" ELSE "rebuilt"
    /\ UNCHANGED <<parent, kind, pc, idx, lpath, url, failed, sem, dirs, files, unreadable>>

\* -------------------------------------------------------- specification
Init ==
    /\ \E t \in Trees : parent = t.parent /\ kind = t.kind
    /\ pc = [n \in DOMAIN kind |-> "idle"]
    /\ idx = [n \in DOMAIN kind |-> 0]
    /\ lpath = [n \in DOMAIN kind |-> <<>>]
    /\ url = [n \in DOMAIN kind |-> <<>>]
    /\ failed = {}
    /\ sem = SEMAPHORE_LIMIT
    /\ dirs = {}
    /\ files = <<>>
    /\ unreadable = {}
    /\ mainpc = "start"
    /\ manifest = <<>>

Next ==
    \/ MainStart
    \/ MainResume
    \/ MainManifest
    \/ Rebuild
    \/ \E n \in Nodes :
        \/ SaveFileAcquire(n)
        \/ SaveFileGetError(n)
        \/ SaveFileOpen(n)
        \/ SaveFileWrite(n)
        \/ SaveFileBreak(n)
        \/ FetchDataAcquire(n)
        \/ FetchDataGetError(n)
        \/ FetchDataGet(n)
        \/ FetchDataText(n)
        \/ FetchDataSaveFile(n)
        \/ FetchDataRecurse(n)
        \/ FetchDataResume(n)
        \/ FetchDataReturn(n)

Spec == Init /\ [][Next]_vars

\* the event loop runs a coroutine that can continue
FairSpec == Spec /\ WF_vars(Next)

TypeOK ==
    /\ pc \in [Nodes -> {"idle", "acquire", "get", "text", "loop", "await", "read", "done", "raised"}]
    /\ sem \in 0..SEMAPHORE_LIMIT
    /\ failed \subseteq Nodes
    /\ mainpc \in {"start", "crawl", "hash", "done", "rebuilt", "aborted", "raised"}
    /\ unreadable \subseteq DOMAIN files

\* ============================================================= properties
RECURSIVE Ancestors(_)
Ancestors(n) == IF n = Root THEN {} ELSE {parent[n]} \cup Ancestors(parent[n])

Entries == Nodes \ {Root}
Siblings(a, b) == a \in Entries /\ b \in Entries /\ a # b /\ parent[a] = parent[b]

\* the call made for n is over
Finished(n) == pc[n] \in {"done", "raised"}

\* where the mirror of the remote entry n belongs in the local tree
ExpectedPath(n) == Name(Root) \o RelPath(n)

FilesUnder(directory) == {p \in DOMAIN files : StartsWith(p, directory \o <<"/">>)}

\* C1: at most 3 calls (listing fetches plus downloads) hold a gate slot
GateBound == Cardinality(Holders) <= 3

\* C1 witness: three slots are held and a fourth call waits at the gate
GateBoundWitness ==
    Cardinality(Holders) = 3 /\ \E n \in Nodes : pc[n] = "acquire"

\* C2: every acquire is eventually admitted and the root fetch_data
\* call eventually returns
AcquisitionOnlyDelays ==
    /\ \A n \in 1..MaxNodes :
          (n \in Nodes /\ pc[n] = "acquire") ~> (n \in Nodes /\ pc[n] # "acquire")
    /\ <>(Finished(Root))

\* C3: a fetch_data call that has returned has no started and unfinished
\* call below it, and the manifest build starts only after the root
\* fetch_data call has returned
CompletionBarrier ==
    /\ \A d \in Nodes : Finished(d) =>
          \A c \in Nodes : d \in Ancestors(c) => pc[c] = "idle" \/ Finished(c)
    /\ (mainpc \in {"hash", "done"} \/ manifest # <<>>) => Finished(Root)

\* C3 witness: the manifest is built after a crawl that went two levels
\* below the root
CompletionBarrierWitness ==
    /\ mainpc = "done"
    /\ \E c \in Entries : parent[c] # Root /\ pc[c] = "done"

\* C4: the entries of one listing are launched together: no entry is
\* still waiting to be started when one of its siblings has completed
LaunchedConcurrently ==
    \A a \in Nodes : \A b \in Nodes :
        Siblings(a, b) /\ Finished(a) => pc[b] # "idle"

\* C5: a fetch_data call holds no gate slot while one of its children
\* acquires or holds a slot
SlotReleasedAfterListing ==
    \A c \in Entries : (pc[c] = "acquire" \/ InGate(c)) => ~InGate(parent[c])

\* C6: a connection failure in save_file makes it return without raising
\* and without touching the filesystem; the destination file exists only
\* once the GET has returned a response
FailedDownloadLeavesNoFile ==
    /\ [](\A c \in Nodes : kind[c] = "file" =>
            /\ c \in failed => pc[c] = "done" /\ Target(c) \notin DOMAIN files
            /\ Target(c) \in DOMAIN files => pc[c] \in {"read", "done"})
    /\ [][\A c \in Nodes : kind[c] = "file" /\ c \in failed' \ failed =>
            files' = files /\ dirs' = dirs]_vars

\* C6 witness: a download has failed
FailedDownloadWitness ==
    \E c \in failed : kind[c] = "file" /\ pc[c] = "done"

\* C7: a connection failure is absorbed where it happens: nothing is
\* raised, a directory whose listing failed starts none of its entries,
\* and a directory whose listing succeeded has, when it returns, run every
\* one of its entries, with every file that did not fail written and
\* every directory created
FailureIsLocal ==
    /\ mainpc # "raised"
    /\ \A n \in Nodes : pc[n] # "raised" /\ (n \in failed => pc[n] = "done")
    /\ \A d \in failed : \A c \in Entries : parent[c] = d => pc[c] = "idle"
    /\ \A c \in Entries : pc[parent[c]] = "done" /\ parent[c] \notin failed =>
          /\ pc[c] = "done"
          /\ kind[c] = "file" /\ c \notin failed => ExpectedPath(c) \in DOMAIN files
          /\ kind[c] = "dir" => ExpectedPath(c) \in dirs

\* C7 witness: the crawl is over, a directory with entries failed to
\* list, and a later entry of the same listing was downloaded
FailureIsLocalWitness ==
    /\ pc[Root] = "done"
    /\ \E d \in failed : \E s \in Entries :
          /\ kind[d] = "dir" /\ Siblings(d, s) /\ s > d
          /\ \E c \in Entries : parent[c] = d
          /\ kind[s] = "file" /\ ExpectedPath(s) \in DOMAIN files

\* C8: when nothing failed and the root fetch_data call has returned, the
\* local tree holds one directory per remote directory and one file per
\* remote file, at the corresponding path, and nothing else
TreeIsomorphism ==
    (pc[Root] = "done" /\ failed = {}) =>
        /\ dirs = {ExpectedPath(n) : n \in {m \in Nodes : kind[m] = "dir"}}
        /\ DOMAIN files = {ExpectedPath(n) : n \in {m \in Nodes : kind[m] = "file"}}
        /\ Cardinality(DOMAIN files) = Cardinality({m \in Nodes : kind[m] = "file"})
        /\ Cardinality(dirs) = Cardinality({m \in Nodes : kind[m] = "dir"})

\* C8 witness: a crawl without failures is over, with a file in the root
\* listing and a file in a sub-directory
TreeIsomorphismWitness ==
    /\ pc[Root] = "done" /\ failed = {}
    /\ \E a \in Entries : \E b \in Entries :
          /\ kind[a] = "file" /\ parent[a] = Root
          /\ kind[b] = "file" /\ parent[b] # Root

\* C9: after the crawl, an entry whose fetch failed has neither a local
\* file nor a local directory
FailedEntriesAbsent ==
    pc[Root] = "done" =>
        \A n \in failed \cap Entries : ExpectedPath(n) \notin dirs /\ ExpectedPath(n) \notin DOMAIN files

\* C10: the manifest is the header row followed by one row per regular
\* file under the directory, and by no other row
ManifestComplete ==
    mainpc = "done" =>
        /\ manifest[1] = FIELDNAMES
        /\ {manifest[k][1] : k \in 2..Len(manifest)} = FilesUnder(PathToProject)
        /\ Len(manifest) - 1 = Cardinality(FilesUnder(PathToProject))

\* C10 witness: the manifest covers a file of the top directory and a
\* file of a sub-directory
ManifestCompleteWitness ==
    /\ mainpc = "done"
    /\ \E p \in DOMAIN files : \E q \in DOMAIN files :
          /\ IsEntry(PathToProject, p)
          /\ StartsWith(q, PathToProject \o <<"/">>) /\ ~IsEntry(PathToProject, q)

\* the files whose download ran to the end of the response body
Downloaded == {ExpectedPath(n) : n \in {m \in Nodes : kind[m] = "file" /\ pc[m] = "done" /\ m \notin failed}}

\* C11: every run of main eventually completes with a manifest whose rows
\* cover exactly the downloaded files, whatever connection failures occur
\* (runs in which a local file is unreadable are not the claim's subject)
MainEventuallyWritesManifest ==
    <>(\/ unreadable # {}
       \/ /\ mainpc = "done"
          /\ manifest # <<>>
          /\ {manifest[k][1] : k \in 2..Len(manifest)} = Downloaded)

\* C12: a second build over the unchanged directory leaves in the manifest
\* exactly what the first build wrote: same content, nothing appended
IdempotentRebuild ==
    [][(mainpc = "done" /\ mainpc' = "rebuilt") =>
          (manifest' = manifest /\ files' = files /\ dirs' = dirs)]_vars

\* C12 witness: the manifest has been rebuilt and has two rows or more
IdempotentRebuildWitness ==
    mainpc = "rebuilt" /\ Len(manifest) >= 3

\* C13: the hash written in a row is the SHA-256 digest of the whole
\* content of the file the row names
HashCorrect ==
    mainpc \in {"done", "rebuilt"} =>
        \A k \in 2..Len(manifest) :
            /\ manifest[k][1] \in DOMAIN files
            /\ manifest[k][2] = Sha256(files[manifest[k][1]])

\* C13 witness: the manifest has rows for two files of different content
HashCorrectWitness ==
    /\ mainpc = "done"
    /\ \E j \in 2..Len(manifest) : \E k \in 2..Len(manifest) :
          files[manifest[j][1]] # files[manifest[k][1]] /\ manifest[j][2] # manifest[k][2]

\* the two path shapes of the remote service
SrcBranch == <<"/", "s", "r", "c", "/", "b", "r", "a", "n", "c", "h">>
RawBranch == <<"/", "r", "a", "w", "/", "b", "r", "a", "n", "c", "h">>

\* "/src/branch" occurs in s at position j
OccursAt(s, j) ==
    /\ j + Len(SrcBranch) - 1 <= Len(s)
    /\ \A i \in 1..Len(SrcBranch) : s[j + i - 1] = SrcBranch[i]

\* s with the characters of every occurrence of "/src/branch" replaced by
\* the characters of "/raw/branch" at the same positions
Rewritten(s) ==
    [i \in 1..Len(s) |->
        IF \E j \in 1..i : OccursAt(s, j) /\ i < j + Len(SrcBranch)
        THEN RawBranch[i + 1 - CHOOSE j \in 1..i : OccursAt(s, j) /\ i < j + Len(SrcBranch)]
        ELSE s[i]]

\* C14: the request of a download is the base address followed by the
\* entry's reference with "/src/branch" replaced by "/raw/branch"; the
\* request of a listing is the base address followed by the directory's
\* reference as listed
PathRewrite ==
    \A n \in Entries : pc[n] # "idle" =>
        /\ kind[n] = "file" => Request(n) = <<"h", ":">> \o Rewritten(Href(n))
        /\ kind[n] = "dir" => Request(n) = <<"h", ":">> \o Href(n)

\* C14 witness: a download and a sub-directory listing have been
\* requested, the download for a file named "branch" in a directory "src"
PathRewriteWitness ==
    /\ \E n \in Entries : kind[n] = "dir" /\ pc[n] = "done" /\ n \notin failed
    /\ \E n \in Entries :
          /\ kind[n] = "file" /\ pc[n] = "done" /\ n \notin failed
          /\ \E j \in 1..Len(Href(n)) : \E k \in 1..Len(Href(n)) :
                j < k /\ OccursAt(Href(n), j) /\ OccursAt(Href(n), k)

\* the file paths in the order the walk of the project directory visits them
Visited ==
    CHOOSE r \in {[k \in 1..Len(rows) |-> rows[k][1]] :
                      rows \in {RowsOfAll(Walk(PathToProject), 1)}} : TRUE

\* C15: when a visited file cannot be read the build ends with an error,
\* and the manifest has no row for that file or for any file visited
\* after it
BuildAbortsOnUnreadable ==
    mainpc \in {"done", "rebuilt", "aborted"} =>
        /\ mainpc = "aborted" <=> unreadable \cap FilesUnder(PathToProject) # {}
        /\ \A k \in 2..Len(manifest) :
              /\ manifest[k][1] = Visited[k - 1]
              /\ \A j \in 1..(k - 1) : Visited[j] \notin unreadable

\* C15 witness: the build was aborted on a file that is visited before a
\* readable file
BuildAbortsWitness ==
    /\ mainpc = "aborted"
    /\ \E j \in 1..Len(Visited) : \E k \in 1..Len(Visited) :
          j < k /\ Visited[j] \in unreadable /\ Visited[k] \notin unreadable

\* C16: the free slots and the calls inside their gated section always
\* add up to 3, and all 3 slots are free once the root fetch_data call
\* has returned
SlotsConserved ==
    /\ sem + Cardinality(Holders) = 3
    /\ Finished(Root) => sem = 3

\* C16 witness: the root call has returned after a failed request and a
\* completed download
SlotsConservedWitness ==
    /\ Finished(Root) /\ sem = 3
    /\ failed # {}
    /\ \E c \in Entries : kind[c] = "file" /\ pc[c] = "done" /\ c \notin failed

\* nesting depth of an entry, the root being at depth 1
Depth(n) == Cardinality(Ancestors(n)) + 1

\* the directory d has been listed successfully and has an entry
ListedWithEntries(d) ==
    /\ kind[d] = "dir" /\ d \notin failed
    /\ pc[d] \notin {"idle", "acquire", "get"}
    /\ \E c \in Entries : parent[c] = d

\* C17: a fetch_data call runs its entries while it and its ancestors
\* hold one slot each; once a directory at depth 3 has been listed with
\* an entry, its entries never get past acquire and neither it nor the
\* root call returns; and unless that happens the root call returns
DepthBoundsTermination ==
    /\ [](\A d \in Nodes : pc[d] \in {"loop", "await"} =>
            /\ Ancestors(d) \cup {d} \subseteq Holders
            /\ Cardinality({h \in Holders : h = d \/ h \in Ancestors(d)}) = Depth(d))
    /\ [](\A d \in Nodes : Depth(d) = 3 /\ ListedWithEntries(d) =>
            /\ ~Finished(d) /\ ~Finished(Root)
            /\ \A c \in Entries : parent[c] = d => pc[c] \in {"idle", "acquire"})
    /\ <>(\/ Finished(Root)
          \/ \E d \in Nodes : Depth(d) = 3 /\ ListedWithEntries(d))

\* C17 witness: a directory at depth 3 waits for its entry, which waits
\* at the gate with no slot left
DepthBoundsWitness ==
    \E d \in Nodes : \E c \in Entries :
        Depth(d) = 3 /\ pc[d] = "await" /\ parent[c] = d /\ pc[c] = "acquire" /\ sem = 0

\* the calls that wait for the network
InFlight == {n \in Nodes : pc[n] \in {"get", "text", "read"}}

\* C18: an entry is started only when every earlier entry of the same
\* listing has returned with everything below it, and at most one
\* request is in flight
SequentialWalk ==
    /\ \A a \in Nodes : \A b \in Nodes :
          (Siblings(a, b) /\ a < b /\ pc[b] # "idle") =>
              /\ Finished(a)
              /\ \A c \in Nodes : a \in Ancestors(c) => pc[c] = "idle" \/ Finished(c)
    /\ Cardinality(InFlight) <= 1

\* C18 witness: the second entry of a listing is in flight after the
\* first entry, a directory with an entry of its own, has returned
SequentialWalkWitness ==
    \E a \in Entries : \E b \in Entries : \E c \in Entries :
        /\ Siblings(a, b) /\ a < b /\ parent[c] = a
        /\ pc[a] = "done" /\ pc[c] = "done" /\ b \in InFlight
====
